---- MODULE Spec2Model ----
(***************************************************************************)
(* Model of the scoring and signal code of the repository:                 *)
(*   kronos-service/app.py         clamp01, simple_signal, FallbackHandler *)
(*   scripts/freqtrade-hyperopt/balanced_hyperopt_loss.py                  *)
(*       BalancedHyperOptLoss, BalancedHyperOptLossV2,                     *)
(*       ConservativeHyperOptLoss                                          *)
(*                                                                         *)
(* Python floats are modelled as decimal floating-point numbers m * 10^e   *)
(* that carry Precision significant digits and are rounded to nearest,     *)
(* ties to even, after every arithmetic operation, with the range of a     *)
(* binary64 (overflow to infinity above 1.797e308, NaN from inf - inf and  *)
(* inf / inf).  Every +, -, *, / of the source is one FAdd, FSub, FMul,    *)
(* FDiv of the model, in the source's order of evaluation.                 *)
(***************************************************************************)
EXTENDS Integers, Sequences, FiniteSets, TLC

VARIABLES
    ohlcv,        \* the argument of simple_signal: a sequence of rows
    sig,          \* the outcome of the last simple_signal call
    results,      \* the backtest summary handed to a loss function
    trade_count,  \* the trade count handed to a loss function
    called,       \* which loss function ran last ("none" before any call)
    loss,         \* the value it returned
    locals,       \* the local variables of BalancedHyperOptLoss at its return
    locals_v2,    \* those of BalancedHyperOptLossV2
    locals_c,     \* those of ConservativeHyperOptLoss
    request,      \* the HTTP request handed to FallbackHandler
    response      \* the status and payload FallbackHandler sent for it

vars == <<ohlcv, sig, results, trade_count, called, loss, locals, locals_v2,
          locals_c, request, response>>

(***************************************************************************)
(* Floating point                                                          *)
(***************************************************************************)
Precision == 4     \* significant decimal digits carried by a float
MaxShift  == 5     \* digits by which a mantissa is widened before rounding
EMax      == 305   \* largest exponent of a 4-digit mantissa: DBL_MAX = 1.797e308
MaxTop    == 1797  \* largest mantissa at exponent EMax
EMin      == -326  \* below 1000e-326 = 1e-323 a result is flushed to zero

RECURSIVE Pow10(_)
Pow10(n) == IF n <= 0 THEN 1 ELSE 10 * Pow10(n - 1)

RECURSIVE Digits(_)
Digits(M) == IF M < 10 THEN 1 ELSE 1 + Digits(M \div 10)

Sgn(x) == IF x > 0 THEN 1 ELSE IF x < 0 THEN -1 ELSE 0

IAbs(x) == IF x < 0 THEN -x ELSE x

IMin(a, b) == IF a < b THEN a ELSE b

IMax(a, b) == IF a > b THEN a ELSE b

Fin(m, e) == [k |-> "fin", m |-> m, e |-> e]

NaN == [k |-> "nan", m |-> 0, e |-> 0]

Inf(s) == [k |-> "inf", m |-> s, e |-> 0]

None == [k |-> "none", m |-> 0, e |-> 0]

FZero == Fin(0, 0)

IsNaN(a) == a.k = "nan"

IsInf(a) == a.k = "inf"

IsFinite(a) == a.k = "fin"

IsZero(a) == a.k = "fin" /\ a.m = 0

\* s * m * 10^e with m already Precision digits long: range check only
Pack(s, m, e) ==
    IF e > EMax \/ (e = EMax /\ m > MaxTop) THEN Inf(s)
    ELSE IF e < EMin THEN FZero
    ELSE Fin(s * m, e)

\* the float nearest to s * M * 10^e (sticky: a nonzero tail below M was cut)
Round(s, M, e, sticky) ==
    IF M = 0 THEN FZero
    ELSE LET drop == Digits(M) - Precision IN
         IF drop <= 0 THEN Pack(s, M * Pow10(-drop), e + drop)
         ELSE LET q    == M \div Pow10(drop)
                  r    == M % Pow10(drop)
                  half == 5 * Pow10(drop - 1)
                  up   == r > half \/ (r = half /\ (sticky \/ q % 2 = 1))
                  q1   == IF up THEN q + 1 ELSE q
              IN  IF q1 = Pow10(Precision)
                  THEN Pack(s, Pow10(Precision - 1), e + drop + 1)
                  ELSE Pack(s, q1, e + drop)

\* the float of a decimal literal n * 10^e, and of a Python int
Dec(n, e) == Round(Sgn(n), IAbs(n), e, FALSE)

FromInt(n) == Dec(n, 0)

FNeg(a) == IF a.k = "nan" THEN NaN ELSE [a EXCEPT !.m = -a.m]

FAbs(a) == IF a.k = "nan" THEN NaN ELSE [a EXCEPT !.m = IAbs(a.m)]

\* -1, 0, 1 as a < b, a = b, a > b; neither operand is NaN
Cmp(a, b) ==
    LET sa == Sgn(a.m)
        sb == Sgn(b.m)
        ea == IF a.k = "inf" THEN EMax + 1 ELSE a.e
        eb == IF b.k = "inf" THEN EMax + 1 ELSE b.e
    IN  IF sa # sb THEN (IF sa < sb THEN -1 ELSE 1)
        ELSE IF sa = 0 THEN 0
        ELSE IF ea # eb THEN (IF ea < eb THEN -sa ELSE sa)
        ELSE IF a.k = "inf" THEN 0
        ELSE Sgn(a.m - b.m)

FLt(a, b) == ~IsNaN(a) /\ ~IsNaN(b) /\ Cmp(a, b) < 0

FLe(a, b) == ~IsNaN(a) /\ ~IsNaN(b) /\ Cmp(a, b) <= 0

FGt(a, b) == FLt(b, a)

FGe(a, b) == FLe(b, a)

FEq(a, b) == ~IsNaN(a) /\ ~IsNaN(b) /\ Cmp(a, b) = 0

FNe(a, b) == ~FEq(a, b)

FAdd(a, b) ==
    IF IsNaN(a) \/ IsNaN(b) THEN NaN
    ELSE IF IsInf(a) THEN (IF IsInf(b) /\ b.m # a.m THEN NaN ELSE a)
    ELSE IF IsInf(b) THEN b
    ELSE IF a.m = 0 THEN b
    ELSE IF b.m = 0 THEN a
    ELSE LET hi  == IF a.e >= b.e THEN a ELSE b
             lo  == IF a.e >= b.e THEN b ELSE a
             gap == hi.e - lo.e
             M   == IF gap <= MaxShift
                    THEN hi.m * Pow10(gap) + lo.m
                    ELSE hi.m * Pow10(MaxShift) + Sgn(lo.m)
             e   == IF gap <= MaxShift THEN lo.e ELSE hi.e - MaxShift
         IN  Round(Sgn(M), IAbs(M), e, FALSE)

FSub(a, b) == FAdd(a, FNeg(b))

FMul(a, b) ==
    IF IsNaN(a) \/ IsNaN(b) THEN NaN
    ELSE IF IsInf(a) \/ IsInf(b)
         THEN (IF a.m = 0 \/ b.m = 0 THEN NaN ELSE Inf(Sgn(a.m) * Sgn(b.m)))
    ELSE Round(Sgn(a.m) * Sgn(b.m), IAbs(a.m) * IAbs(b.m), a.e + b.e, FALSE)

\* a / b for b # 0 (every division of the source has a nonzero divisor:
\* a literal, max(.., 1), vol, 1.0 + exp(..), or one guarded by != 0)
FDiv(a, b) ==
    IF IsNaN(a) \/ IsNaN(b) \/ IsZero(b) THEN NaN
    ELSE IF IsInf(a) THEN (IF IsInf(b) THEN NaN ELSE Inf(a.m * Sgn(b.m)))
    ELSE IF IsInf(b) THEN FZero
    ELSE LET num == IAbs(a.m) * Pow10(MaxShift)
             den == IAbs(b.m)
         IN  Round(Sgn(a.m) * Sgn(b.m), num \div den,
                   a.e - MaxShift - b.e, num % den # 0)

\* Python's two-argument min and max: the first argument unless the second
\* is strictly smaller (larger); a NaN never compares smaller or larger
PyMin(a, b) == IF FLt(b, a) THEN b ELSE a

PyMax(a, b) == IF FGt(b, a) THEN b ELSE a

\* truth value of a float (the left operand of `or`): false only for zero
Truthy(a) == ~IsZero(a) /\ a.k # "none"

\* TRUE, after a has been evaluated (keeps the evaluation stack shallow)
Known(a) == a.k # ""

\* acc + s[lo] + ... + s[hi], added left to right
RECURSIVE FSumFrom(_, _, _, _)
FSumFrom(s, lo, hi, acc) ==
    IF lo > hi THEN acc
    ELSE IF lo = hi THEN FAdd(acc, s[lo])
    ELSE LET mid  == (lo + hi) \div 2
             left == FSumFrom(s, lo, mid, acc)
         IN  IF Known(left) THEN FSumFrom(s, mid + 1, hi, left) ELSE left

\* the builtin sum(): left to right, starting from 0
sum(s) == FSumFrom(s, 1, Len(s), FZero)

(***************************************************************************)
(* math.exp                                                                *)
(***************************************************************************)
ExpMax == Dec(7097, -1)    \* e^x > DBL_MAX for every float x > 709.7 (ln DBL_MAX = 709.78)
ExpMin == Dec(-7451, -1)   \* e^x rounds to 0.0 for every float x < -745.1
EulerE == Dec(2718, -3)
EulerInv == Dec(3679, -4)
One == Dec(1, 0)

\* math.exp(x) raises OverflowError: x is finite and e^x exceeds DBL_MAX
ExpOverflows(x) == IsFinite(x) /\ FGt(x, ExpMax)

RECURSIVE FPow(_, _)
FPow(b, n) ==
    IF n = 0 THEN One
    ELSE LET h  == FPow(b, n \div 2)
             sq == FMul(h, h)
         IN  IF n % 2 = 1 THEN FMul(sq, b) ELSE sq

\* x in units of 1e-4, for a finite |x| < 1000
Units4(x) ==
    IF x.e >= -4 THEN x.m * Pow10(x.e + 4)
    ELSE IF x.e < -8 THEN 0
    ELSE Sgn(x.m) * (IAbs(x.m) \div Pow10(-4 - x.e))

\* 1e4 * (1 + r + r^2/2! + ... ) for r in units of 1e-4, 0 <= r < 1e4
RECURSIVE ExpSeries(_, _, _, _)
ExpSeries(r, k, term, acc) ==
    IF term = 0 \/ k > 12 THEN acc
    ELSE ExpSeries(r, k + 1, (term * r) \div (k * 10000), acc + term)

\* math.exp(x) where it does not raise
Exp(x) ==
    IF IsNaN(x) THEN NaN
    ELSE IF IsInf(x) THEN (IF x.m > 0 THEN Inf(1) ELSE FZero)
    ELSE IF FLt(x, ExpMin) THEN FZero
    ELSE LET X == Units4(x)
             n == X \div 10000
             r == X % 10000
             whole == IF n >= 0 THEN FPow(EulerE, n) ELSE FPow(EulerInv, -n)
             frac  == Dec(ExpSeries(r, 1, 10000, 0), -4)
         IN  FMul(whole, frac)

(***************************************************************************)
(* kronos-service/app.py                                                   *)
(***************************************************************************)
clamp01(x) ==
    IF ~IsFinite(x) THEN FZero
    ELSE PyMax(FZero, PyMin(One, x))

\* a row [timestamp, open, high, low, close, volume]; row[4] is the close
Row(c) == <<FZero, c, c, c, c, FZero>>

Returned(l, s, c) == [st |-> "ok", long |-> l, short |-> s, conf |-> c]

Raised(exc) == [st |-> exc, long |-> NaN, short |-> NaN, conf |-> NaN]

NoSignal == [st |-> "none", long |-> NaN, short |-> NaN, conf |-> NaN]

\* s[-k:]
LastK(s, k) == SubSeq(s, IMax(1, Len(s) - k + 1), Len(s))

\* closes = [row[4] for row in ohlcv[-200:]]
closes(o) == LET w == LastK(o, 200) IN [i \in 1..Len(w) |-> w[i][5]]

\* avg20 = sum(closes[-20:]) / max(1, min(20, n2))
avg20(cs) == FDiv(sum(LastK(cs, 20)), FromInt(IMax(1, IMin(20, Len(cs)))))

\* diffs = [abs(closes[i] - closes[i - 1]) for i in range(1, n2)]
diffs(cs) == [i \in 1..(Len(cs) - 1) |-> FAbs(FSub(cs[i + 1], cs[i]))]

\* vol = (sum(diffs) / max(1, len(diffs))) or 1.0
vol(cs) ==
    LET d    == diffs(cs)
        mean == FDiv(sum(d), FromInt(IMax(1, Len(d))))
    IN  IF Truthy(mean) THEN mean ELSE One

\* slope = (last - avg20) / vol
slope(cs) == FDiv(FSub(cs[Len(cs)], avg20(cs)), vol(cs))

\* the confidence without the 0.9 ceiling
confidence_uncapped(sl, n) ==
    FAdd(FAdd(Dec(4, -1), FMul(Dec(5, -1), clamp01(FDiv(FAbs(sl), Dec(3, 0))))),
         FMul(Dec(1, -1), clamp01(FDiv(FromInt(n), FromInt(480)))))

\* conf = min(0.9, 0.4 + 0.5 * clamp01(abs(slope) / 3.0) + 0.1 * clamp01(n / 480))
confidence(sl, n) ==
    PyMin(Dec(9, -1),
          FAdd(FAdd(Dec(4, -1), FMul(Dec(5, -1), clamp01(FDiv(FAbs(sl), Dec(3, 0))))),
               FMul(Dec(1, -1), clamp01(FDiv(FromInt(n), FromInt(480))))))

\* simple_signal from its line 24 on: a window of at least 10 rows
momentum_signal(o) ==
    LET cs == closes(o)
        sl == slope(cs)
    IN  IF ExpOverflows(FNeg(sl)) THEN Raised("OverflowError")
        ELSE LET long_score  == FDiv(One, FAdd(One, Exp(FNeg(sl))))
                 short_score == FSub(One, long_score)
                 conf        == confidence(sl, Len(o))
             IN  Returned(clamp01(long_score), clamp01(short_score),
                          clamp01(conf))

\* simple_signal with the neutral branch taken for n <= 10
simple_signal_le10(o) ==
    IF Len(o) <= 10 THEN Returned(Dec(5, -1), Dec(5, -1), Dec(4, -1))
    ELSE momentum_signal(o)

simple_signal(o) ==
    IF Len(o) < 10 THEN Returned(Dec(5, -1), Dec(5, -1), Dec(4, -1))
    ELSE momentum_signal(o)

(***************************************************************************)
(* kronos-service/app.py: FallbackHandler                                  *)
(* A decoded JSON value is a record: t its type, n its length (string,     *)
(* object, list), its integer value (number) or 0 / 1 (false / true), and  *)
(* rows its elements when it is a list.                                    *)
(***************************************************************************)
JNull == [t |-> "null", n |-> 0, rows |-> <<>>]

JBool(b) == [t |-> "bool", n |-> IF b THEN 1 ELSE 0, rows |-> <<>>]

JNumber(x) == [t |-> "number", n |-> x, rows |-> <<>>]

JString(len) == [t |-> "string", n |-> len, rows |-> <<>>]

JObject(keys) == [t |-> "object", n |-> keys, rows |-> <<>>]

JList(rs) == [t |-> "list", n |-> Len(rs), rows |-> rs]

\* bool(v), as `or` sees it: None, False, 0, "", {} and [] are falsy
JTruthy(v) == v.t # "null" /\ v.n # 0

\* a row of fewer than 5 entries: row[4] raises IndexError
ShortRow(c) == <<FZero, c, c>>

\* simple_signal called with whatever the request carried as ohlcv
simple_signal_of(v) ==
    IF v.t \in {"number", "bool"} THEN Raised("TypeError")         \* len(ohlcv)
    ELSE IF v.n < 10 THEN Returned(Dec(5, -1), Dec(5, -1), Dec(4, -1))
    ELSE IF v.t = "object" THEN Raised("TypeError")                \* ohlcv[-200:]
    ELSE IF v.t = "string" THEN Raised("IndexError")               \* row[4]
    ELSE IF \E i \in 1..Len(v.rows) :
                i > Len(v.rows) - 200 /\ Len(v.rows[i]) < 5
         THEN Raised("IndexError")                                 \* row[4]
    ELSE simple_signal(v.rows)

NoBody == [kind |-> "empty", has_ohlcv |-> FALSE, ohlcv |-> JNull]

NoRequest == [method |-> "none", path |-> "", body |-> NoBody]

Response(code, s, n) == [code |-> code, sig |-> s, n |-> n]

NoResponse == Response(0, NoSignal, 0)

HttpIdle == request = NoRequest /\ response = NoResponse

\* FallbackHandler.do_GET: the response sent
do_GET_response(req) ==
    IF req.path = "/health" THEN Response(200, NoSignal, 0)
    ELSE Response(404, NoSignal, 0)

\* FallbackHandler.do_POST: the response sent
do_POST_response(req) ==
    IF req.path # "/forecast" THEN Response(404, NoSignal, 0)
    \* json.loads raises, or data is not a dict and data.get raises
    ELSE IF req.body.kind \in {"invalid", "array"}
         THEN Response(400, NoSignal, 0)
    ELSE LET \* data.get("ohlcv"); data is {} for an empty body
             given == IF req.body.kind = "object" /\ req.body.has_ohlcv
                      THEN req.body.ohlcv ELSE JNull
             \* ohlcv = data.get("ohlcv") or []
             value == IF JTruthy(given) THEN given ELSE JList(<<>>)
             s     == simple_signal_of(value)
         IN  IF s.st # "ok" THEN Response(400, NoSignal, 0)
             ELSE Response(200, s, value.n)

(***************************************************************************)
(* numpy                                                                   *)
(***************************************************************************)
\* the largest r in lo..hi-1 with r * r <= M, given lo * lo <= M < hi * hi
RECURSIVE ISqrt(_, _, _)
ISqrt(M, lo, hi) ==
    IF hi - lo <= 1 THEN lo
    ELSE LET mid == (lo + hi) \div 2 IN
         IF mid * mid <= M THEN ISqrt(M, mid, hi) ELSE ISqrt(M, lo, mid)

\* np.sqrt, correctly rounded: r is the 4-digit floor of the root of M, and
\* the root lies above r + 1/2 exactly when M > r * r + r
FSqrt(a) ==
    IF IsNaN(a) \/ a.m < 0 THEN NaN
    ELSE IF IsInf(a) \/ a.m = 0 THEN a
    ELSE LET odd == a.e % 2 = 1
             M   == a.m * (IF odd THEN 1000 ELSE 10000)
             e   == IF odd THEN a.e - 3 ELSE a.e - 4
             r   == ISqrt(M, 0, 10000)
         IN  Round(1, IF M > r * r + r THEN r + 1 ELSE r, e \div 2, FALSE)

\* np.mean
np_mean(xs) == FDiv(sum(xs), FromInt(Len(xs)))

\* np.std: sqrt(mean(abs(x - mean(x)) ** 2))
np_std(xs) ==
    LET mu == np_mean(xs)
        sq == [i \in 1..Len(xs) |-> LET d == FSub(xs[i], mu) IN FMul(d, d)]
    IN  FSqrt(np_mean(sq))

(***************************************************************************)
(* scripts/freqtrade-hyperopt/balanced_hyperopt_loss.py                    *)
(***************************************************************************)
\* results.get(key, default)
Get(r, key, default) == IF key \in DOMAIN r THEN r[key] ELSE default

IsNone(a) == a.k = "none"

\* the value a hyperopt_loss_function call ends with when it raises
RaisedLoss(exc) == [k |-> exc, m |-> 0, e |-> 0]

NumericKeys == {"winrate", "avg_profit_ratio", "avg_loss_ratio",
                "backtest_days", "max_drawdown", "profit_total_pct"}

\* rr with the fallback of the other two variants (0 whenever avg_loss == 0)
risk_reward_no_fallback(avg_profit, avg_loss) ==
    IF FNe(avg_loss, FZero) THEN FAbs(FDiv(avg_profit, avg_loss)) ELSE FZero

\* rr of BalancedHyperOptLoss
risk_reward(avg_profit, avg_loss) ==
    IF FNe(avg_loss, FZero) THEN FAbs(FDiv(avg_profit, avg_loss))
    ELSE IF FLe(avg_profit, FZero) THEN FZero ELSE FromInt(10)

\* rr of BalancedHyperOptLossV2 and ConservativeHyperOptLoss
risk_reward_v2(avg_profit, avg_loss) ==
    IF FNe(avg_loss, FZero) THEN FAbs(FDiv(avg_profit, avg_loss)) ELSE FZero

\* if pf is None or np.isnan(pf): pf = 0
profit_factor(raw) == IF IsNone(raw) \/ IsNaN(raw) THEN FZero ELSE raw

\* pf = results.get("profit_factor", 0) or 0
profit_factor_v2(raw) == IF Truthy(raw) THEN raw ELSE FZero

\* trades_per_week = (trade_count / max(total_days, 1)) * 7
trades_per_week(tc, total_days) ==
    FMul(FDiv(FromInt(tc), PyMax(total_days, One)), FromInt(7))

\* freq_score with the low-frequency branch taken below 10 instead of 1
freq_score_low10(tpw) ==
    IF FLt(tpw, FromInt(10)) THEN tpw
    ELSE IF FGt(tpw, FromInt(20))
         THEN PyMax(Dec(3, -1), FSub(One, FDiv(FSub(tpw, FromInt(20)), FromInt(30))))
    ELSE IF FLe(FromInt(5), tpw) /\ FLe(tpw, FromInt(15)) THEN One
    ELSE IF FLt(tpw, FromInt(5))
         THEN FAdd(Dec(8, -1), FMul(FSub(tpw, One), Dec(5, -2)))
    ELSE FSub(One, FMul(FSub(tpw, FromInt(15)), Dec(4, -2)))

freq_score(tpw) ==
    IF FLt(tpw, One) THEN tpw
    ELSE IF FGt(tpw, FromInt(20))
         THEN PyMax(Dec(3, -1), FSub(One, FDiv(FSub(tpw, FromInt(20)), FromInt(30))))
    ELSE IF FLe(FromInt(5), tpw) /\ FLe(tpw, FromInt(15)) THEN One
    ELSE IF FLt(tpw, FromInt(5))
         THEN FAdd(Dec(8, -1), FMul(FSub(tpw, One), Dec(5, -2)))
    ELSE FSub(One, FMul(FSub(tpw, FromInt(15)), Dec(4, -2)))

\* sample_penalty with the ramp running to 60 trades instead of 30
sample_penalty_to60(tc) ==
    IF tc < 10 THEN Dec(5, -1)
    ELSE IF tc < 60 THEN FAdd(Dec(7, -1), FMul(FromInt(tc - 10), Dec(15, -3)))
    ELSE One

\* sample_penalty with a ramp of 0.02 per trade instead of 0.015
sample_penalty_steep(tc) ==
    IF tc < 10 THEN Dec(5, -1)
    ELSE IF tc < 30 THEN FAdd(Dec(7, -1), FMul(FromInt(tc - 10), Dec(2, -2)))
    ELSE One

sample_penalty(tc) ==
    IF tc < 10 THEN Dec(5, -1)
    ELSE IF tc < 30 THEN FAdd(Dec(7, -1), FMul(FromInt(tc - 10), Dec(15, -3)))
    ELSE One

\* the gates as three independent ifs: the last matching one wins
override_gate_last_wins(pf, total_return, winrate, maxdd) ==
    IF FGt(maxdd, FromInt(50)) THEN "drawdown"
    ELSE IF FLt(winrate, FromInt(20)) THEN "winrate"
    ELSE IF FLe(pf, FZero) \/ FLe(total_return, FromInt(-10)) THEN "severe_loss"
    ELSE "none"

\* the gates with a strict comparison at the -10 return threshold
override_gate_strict(pf, total_return, winrate, maxdd) ==
    IF FLe(pf, FZero) \/ FLt(total_return, FromInt(-10)) THEN "severe_loss"
    ELSE IF FLt(winrate, FromInt(20)) THEN "winrate"
    ELSE IF FGt(maxdd, FromInt(50)) THEN "drawdown"
    ELSE "none"

\* the branch of the final if / elif / elif that runs
override_gate(pf, total_return, winrate, maxdd) ==
    IF FLe(pf, FZero) \/ FLe(total_return, FromInt(-10)) THEN "severe_loss"
    ELSE IF FLt(winrate, FromInt(20)) THEN "winrate"
    ELSE IF FGt(maxdd, FromInt(50)) THEN "drawdown"
    ELSE "none"

\* BalancedHyperOptLoss.hyperopt_loss_function: its locals at the return
BalancedLocals(r, tc) ==
    LET winrate      == FMul(Get(r, "winrate", FZero), FromInt(100))
        avg_profit   == Get(r, "avg_profit_ratio", FZero)
        avg_loss     == Get(r, "avg_loss_ratio", FZero)
        rr           == risk_reward(avg_profit, avg_loss)
        pf           == profit_factor(Get(r, "profit_factor", FZero))
        total_days   == Get(r, "backtest_days", One)
        tpw          == trades_per_week(tc, total_days)
        maxdd        == FMul(FAbs(Get(r, "max_drawdown", FZero)), FromInt(100))
        total_return == Get(r, "profit_total_pct", FZero)
        winrate_score  == PyMin(FDiv(winrate, FromInt(55)), Dec(15, -1))
        rr_score       == PyMin(FDiv(rr, Dec(12, -1)), Dec(2, 0))
        pf_score       == PyMin(FDiv(pf, Dec(13, -1)), Dec(2, 0))
        return_score   == PyMax(FZero, PyMin(FDiv(total_return, FromInt(10)), Dec(15, -1)))
        drawdown_score == PyMax(FZero, FSub(One, FDiv(maxdd, FromInt(20))))
        fs           == freq_score(tpw)
        scores       == <<winrate_score, rr_score, pf_score, drawdown_score, fs>>
        std_score    == np_std(scores)
        stability_bonus == FMul(PyMax(FZero, FSub(One, std_score)), Dec(1, -1))
        sp           == sample_penalty(tc)
        weighted_score ==
            FAdd(FAdd(FAdd(FAdd(FMul(winrate_score, Dec(20, -2)),
                                FMul(rr_score, Dec(25, -2))),
                           FMul(pf_score, Dec(25, -2))),
                      FMul(return_score, Dec(15, -2))),
                 FMul(drawdown_score, Dec(15, -2)))
        composite    == FMul(FMul(FAdd(weighted_score, stability_bonus), fs), sp)
        gate         == override_gate(pf, total_return, winrate, maxdd)
        final_score  == IF gate = "severe_loss" THEN Dec(1, -1)
                        ELSE IF gate = "none" THEN composite
                        ELSE Dec(2, -1)
    IN  [winrate |-> winrate, rr |-> rr, pf |-> pf, trades_per_week |-> tpw,
         maxdd |-> maxdd, total_return |-> total_return, freq_score |-> fs,
         sample_penalty |-> sp, composite |-> composite,
         final_score |-> final_score, gate |-> gate]

\* a field used in arithmetic holds None: the call raises TypeError
Unreadable(r, keys) == \E key \in keys \cap DOMAIN r : IsNone(r[key])

\* BalancedHyperOptLoss without the early return for trade_count == 0
BalancedHyperOptLoss_unguarded(r, tc) ==
    IF Unreadable(r, NumericKeys) THEN RaisedLoss("TypeError")
    ELSE FNeg(BalancedLocals(r, tc).final_score)

\* BalancedHyperOptLoss.hyperopt_loss_function: the value returned
BalancedHyperOptLoss(r, tc) ==
    IF tc = 0 THEN Dec(100, 0)
    ELSE IF Unreadable(r, NumericKeys) THEN RaisedLoss("TypeError")
    ELSE FNeg(BalancedLocals(r, tc).final_score)

\* a field BalancedHyperOptLossV2 uses in arithmetic holds None
UnreadableV2(r) ==
    Unreadable(r, IF FNe(Get(r, "avg_loss_ratio", FZero), FZero)
                  THEN NumericKeys
                  ELSE NumericKeys \ {"avg_profit_ratio"})

\* the drawdown term as a relative deviation in both directions
dd_penalty_symmetric(maxdd, target_dd) ==
    FDiv(FAbs(FSub(maxdd, target_dd)), target_dd)

\* dd_penalty = max(0, (maxdd - target_dd) / target_dd)
dd_penalty(maxdd, target_dd) ==
    PyMax(FZero, FDiv(FSub(maxdd, target_dd), target_dd))

\* the local variables of BalancedHyperOptLossV2 at its return
BalancedV2Locals(r, tc) ==
    LET winrate      == FMul(Get(r, "winrate", FZero), FromInt(100))
        avg_profit   == Get(r, "avg_profit_ratio", FZero)
        avg_loss     == Get(r, "avg_loss_ratio", FZero)
        rr           == risk_reward_v2(avg_profit, avg_loss)
        pf           == profit_factor_v2(Get(r, "profit_factor", FZero))
        total_days   == Get(r, "backtest_days", One)
        tpw          == trades_per_week(tc, total_days)
        maxdd        == FMul(FAbs(Get(r, "max_drawdown", FZero)), FromInt(100))
        total_return == Get(r, "profit_total_pct", FZero)
        target_winrate == FromInt(50)
        target_rr      == Dec(15, -1)
        target_pf      == Dec(13, -1)
        target_return  == FromInt(15)
        target_dd      == FromInt(15)
        winrate_dev == FDiv(FAbs(FSub(winrate, target_winrate)), target_winrate)
        rr_dev      == FDiv(FAbs(FSub(rr, target_rr)), target_rr)
        pf_dev      == FDiv(FAbs(FSub(pf, target_pf)), target_pf)
        ddp         == dd_penalty(maxdd, target_dd)
        balance_score ==
            FDiv(One, FAdd(FAdd(FAdd(FAdd(One, winrate_dev), rr_dev), pf_dev),
                           ddp))
        performance_score ==
            PyMin(One, PyMax(FZero, FDiv(total_return, target_return)))
        fs == IF FLe(FromInt(3), tpw) /\ FLe(tpw, FromInt(12)) THEN One
              ELSE PyMax(Dec(3, -1),
                         FSub(One, FDiv(FAbs(FSub(tpw, Dec(75, -1))), FromInt(15))))
        score == FAdd(FAdd(FMul(balance_score, Dec(6, -1)),
                           FMul(performance_score, Dec(3, -1))),
                      FMul(fs, Dec(1, -1)))
        final_score == IF tc < 20 THEN FMul(score, Dec(5, -1)) ELSE score
    IN  [winrate |-> winrate, rr |-> rr, pf |-> pf, maxdd |-> maxdd,
         dd_penalty |-> ddp, balance_score |-> balance_score,
         final_score |-> final_score]

\* BalancedHyperOptLossV2.hyperopt_loss_function: the value returned
BalancedHyperOptLossV2(r, tc) ==
    IF tc = 0 THEN Dec(100, 0)
    ELSE IF UnreadableV2(r) THEN RaisedLoss("TypeError")
    ELSE FNeg(BalancedV2Locals(r, tc).final_score)

\* a field ConservativeHyperOptLoss uses in arithmetic holds None
UnreadableC(r) ==
    Unreadable(r, IF FNe(Get(r, "avg_loss_ratio", FZero), FZero)
                  THEN NumericKeys \ {"backtest_days"}
                  ELSE NumericKeys \ {"backtest_days", "avg_profit_ratio"})

\* the veto with its three bounds included
risk_veto_inclusive(maxdd, winrate, pf) ==
    FGe(maxdd, FromInt(20)) \/ FLe(winrate, FromInt(40)) \/ FLe(pf, One)

\* if maxdd > 20 or winrate < 40 or pf < 1.0
risk_veto(maxdd, winrate, pf) ==
    FGt(maxdd, FromInt(20)) \/ FLt(winrate, FromInt(40)) \/ FLt(pf, One)

\* the local variables of ConservativeHyperOptLoss at its return
ConservativeLocals(r, tc) ==
    LET winrate      == FMul(Get(r, "winrate", FZero), FromInt(100))
        pf           == profit_factor_v2(Get(r, "profit_factor", FZero))
        maxdd        == FMul(FAbs(Get(r, "max_drawdown", FZero)), FromInt(100))
        total_return == Get(r, "profit_total_pct", FZero)
        risk_score      == PyMax(FZero, FSub(One, FDiv(maxdd, FromInt(10))))
        stability_score == PyMin(FDiv(winrate, FromInt(60)), One)
        profit_score    == PyMin(FDiv(pf, Dec(12, -1)), Dec(15, -1))
        return_score    == PyMax(FZero, PyMin(FDiv(total_return, FromInt(8)), One))
        composite == FAdd(FAdd(FAdd(FMul(risk_score, Dec(40, -2)),
                                    FMul(stability_score, Dec(30, -2))),
                               FMul(profit_score, Dec(20, -2))),
                          FMul(return_score, Dec(10, -2)))
        final_score == IF risk_veto(maxdd, winrate, pf)
                       THEN FMul(composite, Dec(3, -1)) ELSE composite
    IN  [winrate |-> winrate, pf |-> pf, maxdd |-> maxdd,
         total_return |-> total_return, risk_score |-> risk_score,
         stability_score |-> stability_score, profit_score |-> profit_score,
         return_score |-> return_score, composite |-> composite,
         final_score |-> final_score]

\* ConservativeHyperOptLoss.hyperopt_loss_function: the value returned
ConservativeHyperOptLoss(r, tc) ==
    IF tc = 0 THEN Dec(100, 0)
    ELSE IF UnreadableC(r) THEN RaisedLoss("TypeError")
    ELSE FNeg(ConservativeLocals(r, tc).final_score)

(***************************************************************************)
(* Inputs of simple_signal                                                 *)
(***************************************************************************)
MaxBars == 11      \* longest enumerated window
MaxTail == 2       \* enumerated rows after the constant part of a long window

SmallCloses == {Dec(1, 0), Dec(2, 0)}

\* closes whose 4-digit mean is rounded away from them (6667e3 -> 6669e3, 3333e3 -> 3331e3)
BigCloses == {Dec(6667, 3), Dec(3333, 3)}

\* a finite close next to DBL_MAX
HugeClose == Fin(1500, EMax)

LongLens == {200, 201, 480}

SmallRows == {Row(c) : c \in SmallCloses}

ShortInputs == UNION {[1..n -> SmallRows] : n \in 0..MaxBars}

LongInputs ==
    {[i \in 1..len |-> IF i <= len - Len(t) THEN Row(Dec(1, 0))
                       ELSE t[i - (len - Len(t))]] :
        len \in LongLens, t \in UNION {[1..k -> SmallRows] : k \in 0..MaxTail}}

BigInputs == {[i \in 1..n |-> Row(c)] : n \in 10..MaxBars, c \in BigCloses}

HugeInputs ==
    {[i \in 1..n |-> IF i = 1 THEN Row(FNeg(HugeClose)) ELSE Row(HugeClose)] :
        n \in 10..MaxBars}

SignalInputs == ShortInputs \cup LongInputs \cup BigInputs \cup HugeInputs

(***************************************************************************)
(* Specification of the signal estimator                                   *)
(***************************************************************************)
NoSummary == [f \in {} |-> FZero]

NoLocals == [winrate |-> None, rr |-> None, pf |-> None,
             trades_per_week |-> None, maxdd |-> None, total_return |-> None,
             freq_score |-> None, sample_penalty |-> None,
             composite |-> None, final_score |-> None, gate |-> "none"]

NoLocalsV2 == [winrate |-> None, rr |-> None, pf |-> None, maxdd |-> None,
               dd_penalty |-> None, balance_score |-> None,
               final_score |-> None]

NoLocalsC == [winrate |-> None, pf |-> None, maxdd |-> None,
              total_return |-> None, risk_score |-> None,
              stability_score |-> None, profit_score |-> None,
              return_score |-> None, composite |-> None, final_score |-> None]

LossIdle ==
    /\ results = NoSummary
    /\ trade_count = 0
    /\ called = "none"
    /\ loss = None
    /\ locals = NoLocals
    /\ locals_v2 = NoLocalsV2
    /\ locals_c = NoLocalsC

InitSignal ==
    /\ ohlcv \in SignalInputs
    /\ sig = NoSignal
    /\ LossIdle
    /\ HttpIdle

CallSimpleSignal ==
    /\ sig' = simple_signal(ohlcv)
    /\ UNCHANGED <<ohlcv, results, trade_count, called, loss, locals, locals_v2,
                   locals_c, request, response>>

NextSignal == CallSimpleSignal

SpecSignal == InitSignal /\ [][NextSignal]_vars

(***************************************************************************)
(* Inputs of the loss functions                                            *)
(***************************************************************************)
MaxTrades == 60    \* largest enumerated trade_count

Summary(w, ap, al, pf, days, dd, ret) ==
    [key \in NumericKeys \cup {"profit_factor"} |->
        IF key = "winrate" THEN w
        ELSE IF key = "avg_profit_ratio" THEN ap
        ELSE IF key = "avg_loss_ratio" THEN al
        ELSE IF key = "profit_factor" THEN pf
        ELSE IF key = "backtest_days" THEN days
        ELSE IF key = "max_drawdown" THEN dd
        ELSE ret]

\* the end-to-end scenario summary (used with trade_count 50)
Scenario ==
    Summary(Dec(55, -2), Dec(2, -2), Dec(-1, -2), Dec(14, -1), FromInt(70),
            Dec(12, -2), FromInt(12))

\* every field None: a summary that cannot be read
AllNone == [key \in NumericKeys \cup {"profit_factor"} |-> None]

GateInputs ==
    {<<Summary(w, Dec(2, -2), Dec(-1, -2), pf, FromInt(70), dd, ret), tc>> :
        w \in {Dec(1, -1), Dec(2, -1), Dec(55, -2)},
        pf \in {None, NaN, Dec(-5, -1), FZero, Dec(14, -1)},
        ret \in {FromInt(-20), FromInt(-10), Dec(-999, -2), FromInt(12)},
        dd \in {Dec(12, -2), Dec(5, -1), Dec(51, -2)},
        tc \in {0, 5, 50}}

FreqInputs ==
    {<<[Scenario EXCEPT !["backtest_days"] = FromInt(d)], tc>> :
        d \in {7, 14, 70}, tc \in 0..MaxTrades}
    \cup
    {<<[key \in DOMAIN Scenario \ {"backtest_days"} |-> Scenario[key]], tc>> :
        tc \in 0..MaxTrades}

RiskRewardInputs ==
    {<<[Scenario EXCEPT !["avg_profit_ratio"] = ap, !["avg_loss_ratio"] = al], tc>> :
        ap \in {Dec(-1, -2), FZero, Dec(2, -2), Dec(3, -2)},
        al \in {Dec(-1, -2), FZero, Dec(2, -2)},
        tc \in {0, 50}}

DegenerateInputs == {<<r, tc>> : r \in {AllNone, NoSummary}, tc \in {0, 5}}

\* drawdowns on both sides of Variant B's 15% target
DrawdownInputs ==
    {<<Summary(w, Dec(2, -2), Dec(-1, -2), pf, FromInt(70), dd, FromInt(12)), tc>> :
        w \in {Dec(4, -1), Dec(5, -1), Dec(55, -2)},
        pf \in {One, Dec(13, -1), Dec(14, -1)},
        dd \in {FZero, Dec(5, -2), Dec(10, -2), Dec(15, -2), Dec(20, -2),
                Dec(-20, -2), Dec(25, -2), Dec(30, -2)},
        tc \in {5, 50}}

\* summaries on and around the three bounds of Variant C's veto
VetoInputs ==
    {<<Summary(w, Dec(2, -2), Dec(-1, -2), pf, FromInt(70), dd, FromInt(12)), tc>> :
        w \in {Dec(39, -2), Dec(40, -2), Dec(41, -2)},
        pf \in {Dec(99, -2), One, Dec(101, -2)},
        dd \in {Dec(19, -2), Dec(20, -2), Dec(21, -2), Dec(5, -2)},
        tc \in {5, 50}}

LossInputs ==
    GateInputs \cup FreqInputs \cup RiskRewardInputs \cup DegenerateInputs
    \cup DrawdownInputs \cup VetoInputs

(***************************************************************************)
(* Specification of the loss functions                                     *)
(***************************************************************************)
InitLoss ==
    /\ \E inp \in LossInputs : results = inp[1] /\ trade_count = inp[2]
    /\ called = "none"
    /\ loss = None
    /\ locals = NoLocals
    /\ locals_v2 = NoLocalsV2
    /\ locals_c = NoLocalsC
    /\ ohlcv = <<>>
    /\ sig = NoSignal
    /\ HttpIdle

CallBalanced ==
    /\ called' = "BalancedHyperOptLoss"
    /\ loss' = BalancedHyperOptLoss(results, trade_count)
    /\ locals' = IF trade_count = 0 \/ Unreadable(results, NumericKeys)
                 THEN NoLocals
                 ELSE BalancedLocals(results, trade_count)
    /\ locals_v2' = NoLocalsV2
    /\ locals_c' = NoLocalsC
    /\ UNCHANGED <<ohlcv, sig, results, trade_count, request, response>>

CallBalancedV2 ==
    /\ called' = "BalancedHyperOptLossV2"
    /\ loss' = BalancedHyperOptLossV2(results, trade_count)
    /\ locals' = NoLocals
    /\ locals_v2' = IF trade_count = 0 \/ UnreadableV2(results)
                    THEN NoLocalsV2
                    ELSE BalancedV2Locals(results, trade_count)
    /\ locals_c' = NoLocalsC
    /\ UNCHANGED <<ohlcv, sig, results, trade_count, request, response>>

CallConservative ==
    /\ called' = "ConservativeHyperOptLoss"
    /\ loss' = ConservativeHyperOptLoss(results, trade_count)
    /\ locals' = NoLocals
    /\ locals_v2' = NoLocalsV2
    /\ locals_c' = IF trade_count = 0 \/ UnreadableC(results)
                   THEN NoLocalsC
                   ELSE ConservativeLocals(results, trade_count)
    /\ UNCHANGED <<ohlcv, sig, results, trade_count, request, response>>

NextLoss == CallBalanced \/ CallBalancedV2 \/ CallConservative

SpecLoss == InitLoss /\ [][NextLoss]_vars

(***************************************************************************)
(* Requests to the fallback HTTP server                                    *)
(***************************************************************************)
MaxSize == 11      \* largest length / value of a non-list ohlcv

\* lists of rows that each carry a close
WellFormedLists ==
    {s \in ShortInputs : Len(s) = 0 \/ Len(s) >= 9} \cup BigInputs

\* lists whose rows are too short to carry a close
ShortRowLists == {[i \in 1..n |-> ShortRow(Dec(1, 0))] : n \in {3, 10}}

OhlcvValues ==
    {JNull, JBool(FALSE), JBool(TRUE)}
    \cup {JNumber(x) : x \in 0..MaxSize}
    \cup {JString(len) : len \in 0..MaxSize}
    \cup {JObject(keys) : keys \in 0..MaxSize}
    \cup {JList(rs) : rs \in WellFormedLists \cup ShortRowLists}

Bodies ==
    {NoBody, [NoBody EXCEPT !.kind = "invalid"], [NoBody EXCEPT !.kind = "array"],
     [NoBody EXCEPT !.kind = "object"]}
    \cup {[kind |-> "object", has_ohlcv |-> TRUE, ohlcv |-> v] : v \in OhlcvValues}

Requests ==
    {[method |-> "POST", path |-> p, body |-> b] :
        p \in {"/forecast", "/health"}, b \in Bodies}
    \cup {[method |-> "GET", path |-> p, body |-> NoBody] :
        p \in {"/forecast", "/health"}}

(***************************************************************************)
(* Specification of the fallback HTTP server                               *)
(***************************************************************************)
InitHttp ==
    /\ request \in Requests
    /\ response = NoResponse
    /\ ohlcv = <<>>
    /\ sig = NoSignal
    /\ LossIdle

do_GET ==
    /\ request.method = "GET"
    /\ response' = do_GET_response(request)
    /\ UNCHANGED <<ohlcv, sig, results, trade_count, called, loss, locals,
                   locals_v2, locals_c, request>>

do_POST ==
    /\ request.method = "POST"
    /\ response' = do_POST_response(request)
    /\ UNCHANGED <<ohlcv, sig, results, trade_count, called, loss, locals,
                   locals_v2, locals_c, request>>

NextHttp == do_GET \/ do_POST

SpecHttp == InitHttp /\ [][NextHttp]_vars

(***************************************************************************)
(* Properties                                                              *)
(***************************************************************************)
Neutral == Returned(Dec(5, -1), Dec(5, -1), Dec(4, -1))

In01(x) == FLe(FZero, x) /\ FLe(x, One)

\* BalancedHyperOptLoss ran past its early return and computed its locals
Scored == called = "BalancedHyperOptLoss" /\ locals # NoLocals

SevereLoss == FLe(locals.pf, FZero) \/ FLe(locals.total_return, FromInt(-10))

LowWinrate == FLt(locals.winrate, FromInt(20))

DeepDrawdown == FGt(locals.maxdd, FromInt(50))

\* C1: whatever the summary holds (unreadable fields included), each of the
\* three loss functions returns exactly 100.0 when trade_count == 0.
C1_ZeroTradesSentinel ==
    called # "none" /\ trade_count = 0 => loss = Dec(100, 0)

C1_Witness ==
    /\ called = "ConservativeHyperOptLoss"
    /\ trade_count = 0
    /\ results = AllNone
    /\ loss = Dec(100, 0)

\* C2: for 0 to 9 rows simple_signal returns exactly long 0.5, short 0.5,
\* conf 0.4 whatever the rows hold; 10 rows are not answered by that branch.
C2_NeutralBelowTen ==
    sig.st # "none" =>
        /\ Len(ohlcv) < 10 => sig = Neutral
        /\ Len(ohlcv) = 10 => sig # Neutral

C2_Witness ==
    /\ sig = Neutral
    /\ Len(ohlcv) = 9
    /\ ohlcv[1] # ohlcv[9]

\* C3: every result simple_signal returns has long + short == 1.0 and long,
\* short and conf each within [0, 1].
C3_ScoresSumToOne ==
    sig.st = "ok" =>
        /\ FEq(FAdd(sig.long, sig.short), One)
        /\ In01(sig.long) /\ In01(sig.short) /\ In01(sig.conf)

\* C4: simple_signal never raises: every call returns a result.
C4_NeverRaises == sig.st \in {"none", "ok"}

\* C5 as stated: for at least 10 rows the confidence is
\* clamp01(0.4 + 0.5 * clamp01(|slope| / 3) + 0.1 * clamp01(N / 480)) with N
\* the number of closes in the window; no 0.9 ceiling is applied.
C5_UncappedConfidence ==
    sig.st = "ok" /\ Len(ohlcv) >= 10 =>
        sig.conf = clamp01(confidence_uncapped(slope(closes(ohlcv)),
                                               Len(closes(ohlcv))))

\* C5 amended: for at least 10 rows the confidence returned is
\* clamp01(min(0.9, 0.4 + 0.5 * clamp01(|slope| / 3) + 0.1 * clamp01(n / 480)))
\* with n the number of rows supplied, and so never exceeds 0.9.
C5_CappedConfidence ==
    sig.st = "ok" /\ Len(ohlcv) >= 10 =>
        /\ sig.conf = clamp01(PyMin(Dec(9, -1),
                                    confidence_uncapped(slope(closes(ohlcv)),
                                                        Len(ohlcv))))
        /\ FLe(sig.conf, Dec(9, -1))

C5_Witness ==
    /\ sig.st = "ok"
    /\ Len(ohlcv) > 200
    /\ FGt(confidence_uncapped(slope(closes(ohlcv)), Len(ohlcv)), Dec(9, -1))
    /\ sig.conf = Dec(9, -1)

\* C6 as stated: when several gates match, the last matching gate wins, so
\* profitFactor <= 0 together with winRate% < 20 or maxDrawdown% > 50 ends
\* with loss -0.2.
C6_LastGateWins ==
    Scored /\ FLe(locals.pf, FZero) /\ (LowWinrate \/ DeepDrawdown) =>
        loss = Dec(-2, -1)

\* C6 amended: the first matching gate wins: profitFactor <= 0 or
\* totalReturn <= -10 gives loss -0.1 whatever the other fields; otherwise
\* winRate% < 20 gives -0.2; otherwise maxDrawdown% > 50 gives -0.2.
C6_FirstGateWins ==
    Scored =>
        /\ SevereLoss => loss = Dec(-1, -1)
        /\ ~SevereLoss /\ LowWinrate => loss = Dec(-2, -1)
        /\ ~SevereLoss /\ ~LowWinrate /\ DeepDrawdown => loss = Dec(-2, -1)

C6_Witness ==
    /\ Scored
    /\ FLe(locals.pf, FZero) /\ LowWinrate /\ DeepDrawdown
    /\ loss = Dec(-1, -1)

\* C7: with profitFactor > 0, winRate% >= 20 and maxDrawdown% <= 50, a
\* totalReturn <= -10 (exactly -10 included) gives loss -0.1, and every
\* totalReturn > -10 gives the negated composite with no override.
C7_ReturnVeto ==
    Scored /\ FGt(locals.pf, FZero) /\ FGe(locals.winrate, FromInt(20))
           /\ FLe(locals.maxdd, FromInt(50)) =>
        /\ FLe(locals.total_return, FromInt(-10)) => loss = Dec(-1, -1)
        /\ FGt(locals.total_return, FromInt(-10)) =>
               locals.gate = "none" /\ loss = FNeg(locals.composite)

C7_Witness ==
    /\ Scored
    /\ FGt(locals.pf, FZero) /\ FGe(locals.winrate, FromInt(20))
    /\ FLe(locals.maxdd, FromInt(50))
    /\ locals.total_return = FromInt(-10)
    /\ trade_count = 50
    /\ loss = Dec(-1, -1)

\* C8: the frequency score is exactly 1.0 for tradesPerWeek within [5, 15]
\* and strictly below 1.0 outside it.
C8_FrequencyPlateau ==
    Scored =>
        /\ FLe(FromInt(5), locals.trades_per_week)
               /\ FLe(locals.trades_per_week, FromInt(15))
           => locals.freq_score = One
        /\ FLt(locals.trades_per_week, FromInt(5))
               \/ FGt(locals.trades_per_week, FromInt(15))
           => FLt(locals.freq_score, One)

C8_Witness ==
    /\ Scored
    /\ locals.trades_per_week = FromInt(15)
    /\ locals.freq_score = One

\* C9: the end-to-end scenario with trade_count 50 triggers no gate, has
\* freqScore 1.0 and samplePenalty 1.0, and a loss strictly between -1.4
\* and -0.8.
C9_Scenario ==
    called = "BalancedHyperOptLoss" /\ results = Scenario /\ trade_count = 50 =>
        /\ locals.gate = "none"
        /\ locals.freq_score = One
        /\ locals.sample_penalty = One
        /\ FLt(Dec(-14, -1), loss) /\ FLt(loss, Dec(-8, -1))

C9_Witness ==
    /\ called = "BalancedHyperOptLoss"
    /\ results = Scenario
    /\ trade_count = 50
    /\ loss = FNeg(locals.composite)

\* C10: riskReward is 10 for avg_loss_ratio == 0 and avg_profit_ratio > 0,
\* 0 for avg_loss_ratio == 0 and avg_profit_ratio <= 0, and
\* |avg_profit_ratio / avg_loss_ratio| otherwise; it is always a number >= 0.
C10_RiskReward ==
    Scored =>
        LET ap == Get(results, "avg_profit_ratio", FZero)
            al == Get(results, "avg_loss_ratio", FZero)
        IN  /\ FEq(al, FZero) =>
                   locals.rr = IF FGt(ap, FZero) THEN FromInt(10) ELSE FZero
            /\ FNe(al, FZero) => locals.rr = FAbs(FDiv(ap, al))
            /\ FGe(locals.rr, FZero)

C10_Witness ==
    /\ Scored
    /\ Get(results, "avg_loss_ratio", One) = FZero
    /\ Get(results, "avg_profit_ratio", FZero) = Dec(3, -2)
    /\ locals.rr = FromInt(10)

\* the summary carries every numeric field as a finite number
OtherFieldsFinite ==
    \A key \in NumericKeys : key \in DOMAIN results /\ IsFinite(results[key])

\* the profit_factor entry of the summary is null or NaN
ProfitFactorUnusable ==
    /\ "profit_factor" \in DOMAIN results
    /\ IsNone(results["profit_factor"]) \/ IsNaN(results["profit_factor"])

\* C11: in each of the three variants, with trade_count > 0 and every other
\* field finite, a null or NaN profit_factor is replaced before use: the
\* loss returned is a finite number, never NaN.
C11_ProfitFactorSanitised ==
    called # "none" /\ trade_count > 0 /\ OtherFieldsFinite
                    /\ ProfitFactorUnusable =>
        IsFinite(loss)

\* the request is a POST to /forecast whose JSON body is an object with an
\* ohlcv entry, and it has been answered
ForecastAnswered ==
    /\ request.method = "POST" /\ request.path = "/forecast"
    /\ request.body.kind = "object" /\ request.body.has_ohlcv
    /\ response.code # 0

\* the value is a list whose rows each carry a close
WellFormedBars(v) ==
    v.t = "list" /\ \A i \in 1..Len(v.rows) : Len(v.rows[i]) >= 5

\* C12: a POST to /forecast whose ohlcv is a string, an object or a number
\* (of any size) is answered 400 and never 200; one whose ohlcv is a
\* well-formed list of bars is answered 200.
C12_NonListRejected ==
    ForecastAnswered =>
        /\ request.body.ohlcv.t \in {"string", "object", "number"}
               => response.code = 400
        /\ WellFormedBars(request.body.ohlcv) => response.code = 200

\* C13: in Variant A the sample multiplier is 0.5 for 1..9 trades,
\* 0.7 + (trade_count - 10) * 0.015 for 10..29 and 1.0 from 30 on; it stays
\* within [0.5, 1.0] and no smaller trade_count has a larger multiplier.
C13_SamplePenalty ==
    Scored =>
        /\ trade_count < 10 => locals.sample_penalty = Dec(5, -1)
        /\ trade_count >= 10 /\ trade_count < 30 =>
               locals.sample_penalty =
                   FAdd(Dec(7, -1), FMul(FromInt(trade_count - 10), Dec(15, -3)))
        /\ trade_count >= 30 => locals.sample_penalty = One
        /\ FLe(Dec(5, -1), locals.sample_penalty)
        /\ FLe(locals.sample_penalty, One)
        /\ \A t \in 1..trade_count :
               FLe(sample_penalty(t), locals.sample_penalty)

C13_Witness ==
    /\ Scored
    /\ trade_count = 29
    /\ locals.sample_penalty = Dec(985, -3)

\* BalancedHyperOptLossV2 ran past its early return on a summary whose
\* fields, profit_factor included, are all finite
ScoredV2 ==
    /\ called = "BalancedHyperOptLossV2" /\ locals_v2 # NoLocalsV2
    /\ OtherFieldsFinite /\ IsFinite(locals_v2.pf)

\* |x - target| / target
RelDev(x, target) == FDiv(FAbs(FSub(x, target)), target)

\* 1 + the deviations of winRate, riskReward and profitFactor
OnePlusDevs ==
    FAdd(FAdd(FAdd(One, RelDev(locals_v2.winrate, FromInt(50))),
              RelDev(locals_v2.rr, Dec(15, -1))),
         RelDev(locals_v2.pf, Dec(13, -1)))

\* the balance score of the same summary with maxDrawdown% set to pct
BalanceAt(pct) ==
    BalancedV2Locals([results EXCEPT !["max_drawdown"] = FDiv(pct, FromInt(100))],
                     trade_count).balance_score

\* C14 as stated: the balance score of Variant B is 1 / (1 + the relative
\* deviations |x - target| / target of winRate, riskReward, profitFactor and
\* drawdown), so a maxDrawdown% of 15 - d scores the same as 15 + d.
C14_SymmetricDrawdown ==
    ScoredV2 /\ FLe(locals_v2.maxdd, FromInt(30)) =>
        /\ locals_v2.balance_score =
               FDiv(One, FAdd(OnePlusDevs, RelDev(locals_v2.maxdd, FromInt(15))))
        /\ locals_v2.balance_score =
               BalanceAt(FSub(FromInt(30), locals_v2.maxdd))

\* C14 amended: the drawdown term is max(0, (maxDrawdown% - 15) / 15), one
\* sided: a maxDrawdown% at or below 15 adds nothing and scores as 15 does,
\* a maxDrawdown% of 15 + d scores strictly below 15 - d.
C14_OneSidedDrawdown ==
    ScoredV2 /\ FLe(locals_v2.maxdd, FromInt(30)) =>
        /\ locals_v2.dd_penalty =
               IF FGt(locals_v2.maxdd, FromInt(15))
               THEN FDiv(FSub(locals_v2.maxdd, FromInt(15)), FromInt(15))
               ELSE FZero
        /\ locals_v2.balance_score =
               FDiv(One, FAdd(OnePlusDevs, locals_v2.dd_penalty))
        /\ FLe(locals_v2.maxdd, FromInt(15)) =>
               locals_v2.balance_score = BalanceAt(FromInt(15))
        /\ FGt(locals_v2.maxdd, FromInt(15)) =>
               FLt(locals_v2.balance_score,
                   BalanceAt(FSub(FromInt(30), locals_v2.maxdd)))

C14_Witness ==
    /\ ScoredV2
    /\ locals_v2.maxdd = FromInt(10)
    /\ locals_v2.dd_penalty = FZero
    /\ FGt(locals_v2.balance_score, BalanceAt(FromInt(20)))

\* ConservativeHyperOptLoss ran past its early return and computed its locals
ScoredC == called = "ConservativeHyperOptLoss" /\ locals_c # NoLocalsC

\* maxDrawdown% > 20 or winRate% < 40 or profitFactor < 1.0
VetoCondition ==
    \/ FGt(locals_c.maxdd, FromInt(20))
    \/ FLt(locals_c.winrate, FromInt(40))
    \/ FLt(locals_c.pf, One)

\* C15: in Variant C the composite 0.40 * riskScore + 0.30 * stabilityScore
\* + 0.20 * profitScore + 0.10 * returnScore is multiplied by 0.3, once,
\* exactly when maxDrawdown% > 20 or winRate% < 40 or profitFactor < 1.0;
\* a summary on the three bounds (20, 40, 1.0) is not penalised.
C15_RiskVeto ==
    ScoredC =>
        /\ locals_c.composite =
               FAdd(FAdd(FAdd(FMul(locals_c.risk_score, Dec(40, -2)),
                              FMul(locals_c.stability_score, Dec(30, -2))),
                         FMul(locals_c.profit_score, Dec(20, -2))),
                    FMul(locals_c.return_score, Dec(10, -2)))
        /\ VetoCondition => loss = FNeg(FMul(locals_c.composite, Dec(3, -1)))
        /\ ~VetoCondition => loss = FNeg(locals_c.composite)
        /\ locals_c.maxdd = FromInt(20) /\ locals_c.winrate = FromInt(40)
               /\ locals_c.pf = One
           => loss = FNeg(locals_c.composite)

C15_Witness ==
    /\ ScoredC
    /\ locals_c.maxdd = FromInt(20)
    /\ locals_c.winrate = FromInt(40)
    /\ locals_c.pf = One
    /\ FGt(locals_c.composite, FZero)
    /\ loss = FNeg(locals_c.composite)

\* tradesPerWeek of the same backtest with t trades
TradesPerWeekWith(t) ==
    trades_per_week(t, Get(results, "backtest_days", One))

\* C16: the frequency score of Variant A is bell-shaped in tradesPerWeek:
\* non-decreasing up to 5 (no lower frequency scores higher), 1.0 within
\* [5, 15], non-increasing from 15 on (no frequency between 15 and the
\* present one scores lower).
C16_BellShaped ==
    Scored =>
        /\ \A t \in 1..trade_count :
               /\ FLe(locals.trades_per_week, FromInt(5)) =>
                      FLe(freq_score(TradesPerWeekWith(t)), locals.freq_score)
               /\ FGe(TradesPerWeekWith(t), FromInt(15)) =>
                      FGe(freq_score(TradesPerWeekWith(t)), locals.freq_score)
        /\ FLe(FromInt(5), locals.trades_per_week)
               /\ FLe(locals.trades_per_week, FromInt(15))
           => locals.freq_score = One

\* simple_signal returned a result for a window of at least 10 rows whose
\* closes are all finite
ScoredWindow ==
    /\ sig.st = "ok" /\ Len(ohlcv) >= 10
    /\ \A i \in 1..Len(ohlcv) : IsFinite(ohlcv[i][5])

\* C17: for at least 10 rows with finite closes the volatility divisor is
\* strictly positive and the direction follows the sign of last - avg20:
\* long > 0.5 > short when last is above the mean of the last 20 closes,
\* long < 0.5 < short when below, long == short == 0.5 when equal, which
\* includes every window of constant closes.
C17_DirectionFollowsSign ==
    ScoredWindow =>
        LET cs   == closes(ohlcv)
            last == cs[Len(cs)]
            half == Dec(5, -1)
        IN  /\ FGt(vol(cs), FZero)
            /\ FGt(last, avg20(cs)) =>
                   FGt(sig.long, half) /\ FLt(sig.short, half)
            /\ FLt(last, avg20(cs)) =>
                   FLt(sig.long, half) /\ FGt(sig.short, half)
            /\ FEq(last, avg20(cs)) => sig.long = half /\ sig.short = half
            /\ (\A i \in 1..Len(cs) : cs[i] = last) =>
                   sig.long = half /\ sig.short = half

\* C18: in Variant A a gate that fires never improves the ranking: the
\* value it writes (0.1 or 0.2) is at most the composite
\* (weighted + stabilityBonus) * freqScore * samplePenalty it replaces, so
\* the loss returned is never below the loss without the gate.
C18_GateNeverImproves ==
    Scored /\ locals.gate # "none" =>
        /\ locals.final_score \in {Dec(1, -1), Dec(2, -1)}
        /\ FLe(locals.final_score, locals.composite)
        /\ FGe(loss, FNeg(locals.composite))

====
